---- MODULE Spec2Model ----
(***************************************************************************)
(* Screen-column width computation of nvim/plines.h: the mode dispatch of  *)
(* win_charsize, the line accumulators win_linetabsize and linetabsize_str *)
(* and the CharsizeArg line context they work on.  The routines plines.h   *)
(* only declares (init_charsize_arg, charsize_fast, charsize_regular,      *)
(* linesize_fast, linesize_regular, linetabsize_col) follow the design     *)
(* document's sections 4.1 to 4.4.                                         *)
(***************************************************************************)
EXTENDS Integers, Sequences, FiniteSets, TLC

\* ------------------------------------------------------------------ bounds
MaxLen == 2          \* characters in a line
MaxMarks == 2        \* inline virtual texts in the buffer

\* --------------------------------------------------------------- constants
kCharsizeRegular == FALSE
kCharsizeFast == TRUE
CSType == BOOLEAN

INT_MIN == -2147483647 - 1
TAB == 9

\* Code points of the lines: TAB, 'a', U+0301 (combining acute accent, two
\* bytes, no cell).
Chars == {TAB, 97, 769}

\* Values of 'tabstop', widths of 'showbreak' plus 'breakindent', widths of
\* one inline virtual text, line numbers, start columns of a scan and
\* values a caller gives max_head_vcol.
Tabstops == {3, 8}
IndentWidths == {0, 4}
VtWidths == {3}
Lnums == {1, 2}
StartCols == {0, 3}
HeadCaps == {0, 1}

\* ------------------------------------------------- external collaborators
\* Intrinsic cell width of one code point; control characters are drawn in
\* their two-cell escape form (^I for a TAB).
char2cells(c) ==
  IF c < 32 THEN 2
  ELSE IF c < 768 THEN 1
  ELSE IF c < 880 THEN 0
  ELSE IF c < 4352 THEN 1
  ELSE 2

\* Bytes of the UTF-8 encoding of a code point.
utf_char2len(c) ==
  IF c < 128 THEN 1 ELSE IF c < 2048 THEN 2 ELSE IF c < 65536 THEN 3 ELSE 4

\* Columns to the next tab stop.
tabstop_padding(vcol, ts) == ts - (vcol % ts)

\* Byte offset of the i-th character (1-based) of a line; PtrOf(line,
\* Len(line) + 1) is the byte length of the line.
RECURSIVE PtrOf(_, _)
PtrOf(line, i) ==
  IF i <= 1 THEN 0 ELSE PtrOf(line, i - 1) + utf_char2len(line[i - 1])

\* The inline virtual texts of the buffer, in (row, col) order as the mark
\* tree keeps them; all of them have left gravity.
MarkVals == [row : {l - 1 : l \in Lnums}, col : 0..(MaxLen - 1), width : VtWidths]

MarkBefore(a, b) == a.row < b.row \/ (a.row = b.row /\ a.col <= b.col)

MarkSeqs ==
  {s \in UNION {[1..n -> MarkVals] : n \in 0..MaxMarks} :
     \A i \in 1..(Len(s) - 1) : MarkBefore(s[i], s[i + 1])}

\* Window configuration: 'tabstop', 'list' without a "tab" listchar, the
\* width 'showbreak' and 'breakindent' take on wrapped parts, the marks.
Windows == [ts : Tabstops, list : BOOLEAN, indent : IndentWidths, marks : MarkSeqs]

Lines == UNION {[1..n -> Chars] : n \in 0..MaxLen}

\* ------------------------------------------------------------ CharsizeArg
\* A line context before init_charsize_arg has filled it.
NoArg(wp, line) ==
  [win |-> wp, line |-> line, use_tabstop |-> FALSE, indent_width |-> INT_MIN,
   virt_row |-> -1, cur_text_width_left |-> 0, cur_text_width_right |-> 0,
   max_head_vcol |-> 0, iter |-> 1]

CharSize(w, h) == [width |-> w, head |-> h]

\* The annotation cursor placed at the first mark at or after (row, 0).
RECURSIVE marktree_itr_get(_, _, _)
marktree_itr_get(marks, row, i) ==
  IF i > Len(marks) \/ marks[i].row >= row THEN i
  ELSE marktree_itr_get(marks, row, i + 1)

\* Mode Classifier: fills the line context and picks the mode.  A string
\* that is no buffer line (lnum 0) has no virtual row.
init_charsize_arg(wp, lnum, line) ==
  LET it == IF lnum > 0 THEN marktree_itr_get(wp.marks, lnum - 1, 1)
            ELSE Len(wp.marks) + 1
      has_virt == it <= Len(wp.marks)
      use_ts == ~wp.list
      arg == [win |-> wp, line |-> line, use_tabstop |-> use_ts,
              indent_width |-> INT_MIN,
              virt_row |-> IF has_virt THEN lnum - 1 ELSE -1,
              cur_text_width_left |-> 0, cur_text_width_right |-> 0,
              max_head_vcol |-> 0, iter |-> it]
  IN [cstype |-> IF use_ts /\ wp.indent = 0 /\ ~has_virt
                 THEN kCharsizeFast ELSE kCharsizeRegular,
      csarg |-> arg]

\* Character Width Engine, Fast mode.
charsize_fast(csarg, ptr, vcol, chr) ==
  [size |-> IF chr = TAB /\ csarg.use_tabstop
            THEN CharSize(tabstop_padding(vcol, csarg.win.ts), 0)
            ELSE CharSize(char2cells(chr), 0),
   csarg |-> csarg]

\* The annotation cursor's walk for one character at byte offset col: the
\* width of the inline virtual texts anchored there, and the cursor past
\* every anchor at or before col on the virtual row.
RECURSIVE virt_text_at(_, _, _, _, _)
virt_text_at(marks, virt_row, col, it, width) ==
  IF it > Len(marks) \/ marks[it].row # virt_row \/ marks[it].col > col
  THEN [iter |-> it, width |-> width]
  ELSE virt_text_at(marks, virt_row, col, it + 1,
                    IF marks[it].col = col THEN width + marks[it].width ELSE width)

\* A slip of charsize_regular: the wrap decoration is charged to head and
\* not to width.
charsize_regular_head_only(csarg, ptr, vcol, chr) ==
  LET wp == csarg.win
      use_tabstop == chr = TAB /\ csarg.use_tabstop
      cells == char2cells(chr)
      zero == ~use_tabstop /\ cells = 0
      vt == IF csarg.virt_row >= 0
            THEN virt_text_at(wp.marks, csarg.virt_row, ptr, csarg.iter, 0)
            ELSE [iter |-> csarg.iter, width |-> 0]
      first == ptr = 0 /\ ~zero
      indent_width == IF first /\ csarg.indent_width = INT_MIN
                      THEN wp.indent ELSE csarg.indent_width
      added == IF first /\ indent_width # 0 THEN indent_width ELSE 0
      head == IF csarg.max_head_vcol <= 0 \/ vcol < csarg.max_head_vcol
              THEN added ELSE 0
      extra == vt.width
      size == IF use_tabstop
              THEN extra + tabstop_padding(vcol + extra, wp.ts)
              ELSE extra + cells
  IN [size |-> IF zero THEN CharSize(0, 0) ELSE CharSize(size, head),
      csarg |-> [csarg EXCEPT !.iter = vt.iter,
                              !.indent_width = indent_width,
                              !.cur_text_width_left = IF zero THEN 0 ELSE vt.width,
                              !.cur_text_width_right = 0]]

\* Character Width Engine, Regular mode.  A code point without cells takes
\* no width whatever is anchored at it; the wrap decoration is charged to
\* the first character of the line, in head only before max_head_vcol; a
\* TAB is padded from the column after decoration and virtual text.
charsize_regular(csarg, ptr, vcol, chr) ==
  LET wp == csarg.win
      use_tabstop == chr = TAB /\ csarg.use_tabstop
      cells == char2cells(chr)
      zero == ~use_tabstop /\ cells = 0
      vt == IF csarg.virt_row >= 0
            THEN virt_text_at(wp.marks, csarg.virt_row, ptr, csarg.iter, 0)
            ELSE [iter |-> csarg.iter, width |-> 0]
      first == ptr = 0 /\ ~zero
      indent_width == IF first /\ csarg.indent_width = INT_MIN
                      THEN wp.indent ELSE csarg.indent_width
      added == IF first /\ indent_width # 0 THEN indent_width ELSE 0
      head == IF csarg.max_head_vcol <= 0 \/ vcol < csarg.max_head_vcol
              THEN added ELSE 0
      extra == added + vt.width
      size == IF use_tabstop
              THEN extra + tabstop_padding(vcol + extra, wp.ts)
              ELSE extra + cells
  IN [size |-> IF zero THEN CharSize(0, 0) ELSE CharSize(size, head),
      csarg |-> [csarg EXCEPT !.iter = vt.iter,
                              !.indent_width = indent_width,
                              !.cur_text_width_left = IF zero THEN 0 ELSE vt.width,
                              !.cur_text_width_right = 0]]

\* A slip of win_charsize: charsize_fast takes (csarg, ptr, vcol, chr) and is
\* handed the column and the code point the other way round.
win_charsize_transposed(cstype, vcol, ptr, chr, csarg) ==
  IF cstype = kCharsizeFast
  THEN charsize_fast(csarg, ptr, chr, vcol)
  ELSE charsize_regular(csarg, ptr, vcol, chr)

\* A slip of win_charsize: the mode test the wrong way round.
win_charsize_inverted(cstype, vcol, ptr, chr, csarg) ==
  IF cstype = kCharsizeRegular
  THEN charsize_fast(csarg, ptr, vcol, chr)
  ELSE charsize_regular(csarg, ptr, vcol, chr)

\* plines.h: dispatch on the mode tag.
win_charsize(cstype, vcol, ptr, chr, csarg) ==
  IF cstype = kCharsizeFast
  THEN charsize_fast(csarg, ptr, vcol, chr)
  ELSE charsize_regular(csarg, ptr, vcol, chr)

\* Line Width Accumulator: the widths of the characters i.. of the line that
\* start before byte offset len, the first of them at column vcol.
RECURSIVE linesize_fast_from(_, _, _, _)
linesize_fast_from(csarg, i, vcol, len) ==
  IF i > Len(csarg.line) \/ PtrOf(csarg.line, i) >= len THEN 0
  ELSE LET r == charsize_fast(csarg, PtrOf(csarg.line, i), vcol, csarg.line[i])
       IN r.size.width
          + linesize_fast_from(r.csarg, i + 1, vcol + r.size.width, len)

linesize_fast(csarg, vcol, len) == linesize_fast_from(csarg, 1, vcol, len)

RECURSIVE linesize_regular_from(_, _, _, _)
linesize_regular_from(csarg, i, vcol, len) ==
  IF i > Len(csarg.line) \/ PtrOf(csarg.line, i) >= len THEN 0
  ELSE LET r == charsize_regular(csarg, PtrOf(csarg.line, i), vcol, csarg.line[i])
       IN r.size.width
          + linesize_regular_from(r.csarg, i + 1, vcol + r.size.width, len)

linesize_regular(csarg, vcol, len) == linesize_regular_from(csarg, 1, vcol, len)

\* A slip of win_linetabsize: the mode test the wrong way round.
win_linetabsize_inverted(wp, lnum, line, len) ==
  LET c == init_charsize_arg(wp, lnum, line)
  IN IF c.cstype = kCharsizeRegular
     THEN linesize_fast(c.csarg, 0, len)
     ELSE linesize_regular(c.csarg, 0, len)

\* plines.h: width of the first len bytes of a line of window wp.
win_linetabsize(wp, lnum, line, len) ==
  LET c == init_charsize_arg(wp, lnum, line)
  IN IF c.cstype = kCharsizeFast
     THEN linesize_fast(c.csarg, 0, len)
     ELSE linesize_regular(c.csarg, 0, len)

\* Width of a string in the current window from column startvcol; the
\* string is no buffer line (lnum 0).
linetabsize_col(curwin, startvcol, s) ==
  LET c == init_charsize_arg(curwin, 0, s)
      len == PtrOf(s, Len(s) + 1)
  IN IF c.cstype = kCharsizeFast
     THEN linesize_fast(c.csarg, startvcol, len)
     ELSE linesize_regular(c.csarg, startvcol, len)

\* A slip of linetabsize_str: the string measured from column 1.
linetabsize_str_col1(curwin, s) == linetabsize_col(curwin, 1, s)

\* plines.h: width of a string in the current window, from column 0.
linetabsize_str(curwin, s) == linetabsize_col(curwin, 0, s)

\* ------------------------------------------------------------------ state
VARIABLES
  win,       \* the (current) window's configuration
  lnum,      \* line number of the line
  line,      \* the line's code points
  pc,        \* "start", "scan", "sized", "done"
  cstype,    \* mode tag init_charsize_arg returned
  csarg,     \* the line context
  startcol,  \* column the scan started from
  idx,       \* 1-based index of the next character of the scan
  vcol,      \* column of the next character of the scan
  sizes,     \* CharSize of the first query of each scanned character
  last,      \* CharSize of the latest query
  again,     \* the latest query repeated the one before
  total,     \* result of win_linetabsize
  strtotal   \* result of linetabsize_str

vars == <<win, lnum, line, pc, cstype, csarg, startcol, idx, vcol, sizes,
          last, again, total, strtotal>>

Init ==
  /\ win \in Windows
  /\ lnum \in Lnums
  /\ line \in Lines
  /\ pc = "start"
  /\ cstype = kCharsizeRegular
  /\ csarg = NoArg(win, line)
  /\ startcol = 0
  /\ idx = 1
  /\ vcol = 0
  /\ sizes = <<>>
  /\ last = CharSize(0, 0)
  /\ again = FALSE
  /\ total = 0
  /\ strtotal = 0

\* The caller classifies the line once, sets the head cap and starts a scan
\* at some column.
Classify ==
  /\ pc = "start"
  /\ \E c \in StartCols, m \in HeadCaps :
       /\ startcol' = c
       /\ vcol' = c
       /\ LET r == init_charsize_arg(win, lnum, line)
          IN /\ cstype' = r.cstype
             /\ csarg' = [r.csarg EXCEPT !.max_head_vcol = m]
  /\ pc' = "scan"
  /\ UNCHANGED <<win, lnum, line, idx, sizes, last, again, total, strtotal>>

\* The scan queries the next character and moves on.
Charsize ==
  /\ pc = "scan"
  /\ idx <= Len(line)
  /\ LET r == win_charsize(cstype, vcol, PtrOf(line, idx), line[idx], csarg)
     IN /\ csarg' = r.csarg
        /\ last' = r.size
        /\ sizes' = Append(sizes, r.size)
        /\ vcol' = vcol + r.size.width
  /\ idx' = idx + 1
  /\ again' = FALSE
  /\ UNCHANGED <<win, lnum, line, pc, cstype, startcol, total, strtotal>>

\* The caller queries the latest character again, at the same column.
Requery ==
  /\ pc = "scan"
  /\ idx > 1
  /\ LET r == win_charsize(cstype, vcol - sizes[idx - 1].width,
                           PtrOf(line, idx - 1), line[idx - 1], csarg)
     IN /\ csarg' = r.csarg
        /\ last' = r.size
  /\ again' = TRUE
  /\ UNCHANGED <<win, lnum, line, pc, cstype, startcol, idx, vcol, sizes,
                 total, strtotal>>

\* A line-length query of the whole line.
Linetabsize ==
  /\ pc = "scan"
  /\ idx > Len(line)
  /\ total' = win_linetabsize(win, lnum, line, PtrOf(line, Len(line) + 1))
  /\ pc' = "sized"
  /\ UNCHANGED <<win, lnum, line, cstype, csarg, startcol, idx, vcol, sizes,
                 last, again, strtotal>>

\* The width of the line's text as a string.
LinetabsizeStr ==
  /\ pc = "sized"
  /\ strtotal' = linetabsize_str(win, line)
  /\ pc' = "done"
  /\ UNCHANGED <<win, lnum, line, cstype, csarg, startcol, idx, vcol, sizes,
                 last, again, total>>

Next ==
  \/ Classify
  \/ Charsize
  \/ Requery
  \/ Linetabsize
  \/ LinetabsizeStr

Spec == Init /\ [][Next]_vars

\* ---------------------------------------------------------------- helpers
ByteLen(l) == PtrOf(l, Len(l) + 1)

RECURSIVE SumWidths(_)
SumWidths(ss) == IF ss = <<>> THEN 0 ELSE Head(ss).width + SumWidths(Tail(ss))

\* Column at which the i-th character of the scan was first queried.
ColBefore(i) == startcol + SumWidths(SubSeq(sizes, 1, i - 1))

\* Width of the inline virtual texts anchored at (row, col), read off the
\* buffer's marks without any cursor.
RECURSIVE MarkWidthAt(_, _, _, _)
MarkWidthAt(marks, row, col, k) ==
  IF k > Len(marks) THEN 0
  ELSE (IF marks[k].row = row /\ marks[k].col = col THEN marks[k].width ELSE 0)
       + MarkWidthAt(marks, row, col, k + 1)

AnnAt(i) == MarkWidthAt(win.marks, lnum - 1, PtrOf(line, i), 1)

NoAnnOnLine == \A k \in 1..Len(win.marks) : win.marks[k].row # lnum - 1

NoAnnFromRow == \A k \in 1..Len(win.marks) : win.marks[k].row < lnum - 1

Scanned == pc # "start"

HeadCounted == csarg.max_head_vcol <= 0 \/ startcol < csarg.max_head_vcol

\* Columns a character is tried at: every residue of every tab stop.
Cols == {0, 1, 2, 7}

\* --------------------------------------------------------------------- C1
\* C1: on a line without wrap decoration and without annotations, Fast mode
\* and Regular mode give every character of the line the same (width, head)
\* at every column, on the same line context.
Thm_C1 ==
  (Scanned /\ win.indent = 0 /\ NoAnnOnLine) =>
    \A i \in 1..Len(line) : \A c \in Cols \cup {vcol} :
      win_charsize(kCharsizeFast, c, PtrOf(line, i), line[i], csarg).size
        = win_charsize(kCharsizeRegular, c, PtrOf(line, i), line[i], csarg).size

Wit_C1 ==
  /\ pc = "scan" /\ idx > Len(line) /\ Len(line) = 2
  /\ cstype = kCharsizeRegular /\ win.indent = 0 /\ NoAnnOnLine
  /\ line[1] = 97 /\ line[2] = TAB /\ win.ts = 8 /\ startcol = 0
  /\ last = CharSize(7, 0) /\ csarg.use_tabstop

\* --------------------------------------------------------------------- C2
\* C2: the width win_linetabsize computes for the whole line equals the sum
\* of the widths win_charsize gave the characters of a scan from column 0.
Thm_C2 ==
  (pc \in {"sized", "done"} /\ startcol = 0) => total = SumWidths(sizes)

Wit_C2 ==
  /\ pc = "sized" /\ startcol = 0 /\ Len(line) = 2
  /\ line[1] = 97 /\ line[2] = TAB /\ win.ts = 8 /\ total = 8
  /\ sizes = <<CharSize(1, 0), CharSize(7, 0)>>

\* --------------------------------------------------------------------- C3
\* C3: in Fast mode a TAB at column c with tab stop t has width t - (c mod
\* t) and head 0; c + width is a multiple of t and 1 <= width <= t.
Thm_C3 ==
  (Scanned /\ cstype = kCharsizeFast /\ idx > 1 /\ line[idx - 1] = TAB) =>
    LET c == ColBefore(idx - 1)
        t == win.ts
    IN /\ last = CharSize(t - (c % t), 0)
       /\ sizes[idx - 1] = last
       /\ (c + last.width) % t = 0
       /\ 1 <= last.width /\ last.width <= t

Wit_C3 ==
  /\ pc = "scan" /\ cstype = kCharsizeFast /\ startcol = 3 /\ win.ts = 8
  /\ idx = 3 /\ line[1] = TAB /\ line[2] = TAB
  /\ sizes = <<CharSize(5, 0), CharSize(8, 0)>> /\ vcol = 16

\* --------------------------------------------------------------------- C4
SizeOK(cs) == cs.width >= 0 /\ cs.head >= 0 /\ cs.head <= cs.width

\* C4: every CharSize win_charsize returns, in either mode, has width >= 0,
\* head >= 0 and head <= width.
Thm_C4 == SizeOK(last) /\ \A i \in 1..Len(sizes) : SizeOK(sizes[i])

Wit_C4 ==
  /\ pc = "scan" /\ idx > 1 /\ cstype = kCharsizeRegular
  /\ last.head > 0 /\ last.width > last.head

\* --------------------------------------------------------------------- C5
\* The cached decoration width is the window's, from the first character on.
C5Cached ==
  Scanned =>
    /\ csarg.indent_width \in {INT_MIN, win.indent}
    /\ (cstype = kCharsizeRegular /\ idx > 1 /\ char2cells(line[1]) # 0)
         => csarg.indent_width = win.indent

\* No character after the first has a head.
C5FirstOnly ==
  /\ \A i \in 2..Len(sizes) : sizes[i].head = 0
  /\ (idx > 2 => last.head = 0)

\* The first character is charged the decoration once.
C5Charged ==
  (Scanned /\ cstype = kCharsizeRegular /\ idx > 1 /\ char2cells(line[1]) # 0) =>
    /\ sizes[1].head = IF HeadCounted THEN win.indent ELSE 0
    /\ line[1] # TAB => sizes[1].width = win.indent + AnnAt(1) + char2cells(line[1])

\* Asking again about the first character of a decorated line gives the
\* same pair.
C5SameResult ==
  (Scanned /\ idx = 2 /\ again /\ win.indent > 0) => last = sizes[1]

\* Asking again gives the same head, no more width, and the same pair when
\* no annotation is anchored at the first character.
C5SameHead ==
  (Scanned /\ idx = 2 /\ again) =>
    /\ last.head = sizes[1].head
    /\ last.width <= sizes[1].width
    /\ AnnAt(1) = 0 => last = sizes[1]

\* C5 as stated: the decoration is charged once, to the first character, and
\* every repeated query of the first character returns the same result.
Orig_C5 == C5Cached /\ C5FirstOnly /\ C5Charged /\ C5SameResult

\* C5 amended: the decoration is charged once, to the first character; a
\* repeated query of the first character returns the same head, and the
\* same width unless an annotation is anchored there (the first query alone
\* counts it).
Thm_C5 == C5Cached /\ C5FirstOnly /\ C5Charged /\ C5SameHead

Wit_C5 ==
  /\ pc = "scan" /\ idx = 2 /\ again /\ cstype = kCharsizeRegular
  /\ win.indent = 4 /\ line[1] = 97 /\ AnnAt(1) = 0
  /\ last = CharSize(5, 4) /\ sizes[1] = last

\* --------------------------------------------------------------------- C6
FastEligible == ~win.list /\ win.indent = 0 /\ NoAnnFromRow

\* C6: the classifier picks Fast exactly for the lines without decoration,
\* without an annotation on or after the virtual row and with tab-stop
\* tabs; what win_linetabsize computes on the path it takes is what
\* Regular mode computes, so Fast never drops a contribution.
Thm_C6 ==
  Scanned =>
    /\ cstype = kCharsizeFast <=> FastEligible
    /\ cstype = kCharsizeFast =>
         csarg.virt_row = -1 /\ csarg.use_tabstop /\ win.indent = 0
    /\ pc \in {"sized", "done"} =>
         total = linesize_regular(init_charsize_arg(win, lnum, line).csarg, 0,
                                  ByteLen(line))

Wit_C6 ==
  /\ pc = "sized" /\ cstype = kCharsizeRegular /\ win.indent = 4
  /\ ~win.list /\ win.marks = <<>> /\ Len(line) = 2 /\ total >= 4

\* --------------------------------------------------------------------- C7
\* After a Regular-mode query the cursor is past every anchor at or before
\* the queried position on the virtual row.
C7Past ==
  (Scanned /\ cstype = kCharsizeRegular /\ csarg.virt_row >= 0 /\ idx > 1) =>
    \A k \in csarg.iter..Len(win.marks) :
      ~(win.marks[k].row = csarg.virt_row
        /\ win.marks[k].col <= PtrOf(line, idx - 1))

\* C7: over the queries of one line context, in non-decreasing position
\* order, the annotation cursor never moves back, and after each query it
\* is past every anchor at or before the queried position.
Thm_C7 == [][(pc = "scan" => csarg'.iter >= csarg.iter) /\ C7Past']_vars

Wit_C7 ==
  /\ pc = "scan" /\ cstype = kCharsizeRegular /\ idx = 3 /\ again
  /\ Len(win.marks) = 2 /\ csarg.iter = 3
  /\ win.marks[1].row = lnum - 1 /\ win.marks[2].row = lnum - 1
  /\ win.marks[1].col = 0 /\ win.marks[2].col = 1

\* --------------------------------------------------------------------- C8
\* Width of the i-th character at column col in Regular mode, with the
\* annotations read off the marks: every annotation anchored at a character
\* counts (zerotoo), or only those at characters that have cells.
RefWidth(i, col, zerotoo) ==
  LET chr == line[i]
      tab == chr = TAB /\ ~win.list
      zero == ~tab /\ char2cells(chr) = 0
      deco == IF i = 1 /\ ~zero THEN win.indent ELSE 0
      extra == deco + AnnAt(i)
  IN IF zero THEN (IF zerotoo THEN AnnAt(i) ELSE 0)
     ELSE IF tab THEN extra + tabstop_padding(col + extra, win.ts)
     ELSE extra + char2cells(chr)

C8Scan(zerotoo) ==
  (Scanned /\ cstype = kCharsizeRegular) =>
    /\ \A i \in 1..Len(sizes) :
         /\ sizes[i].width = RefWidth(i, ColBefore(i), zerotoo)
         /\ sizes[i].head <= sizes[i].width
                              - (IF zerotoo \/ char2cells(line[i]) # 0
                                 THEN AnnAt(i) ELSE 0)
    /\ vcol = startcol + SumWidths(sizes)

Thm_C9 ==
  /\ \A i \in 1..Len(sizes) : char2cells(line[i]) = 0 => sizes[i] = CharSize(0, 0)
  /\ (idx > 1 /\ char2cells(line[idx - 1]) = 0) => last = CharSize(0, 0)
  /\ Scanned =>
       \A i \in 1..Len(line) :
         char2cells(line[i]) = 0 =>
           \A c \in Cols \cup {vcol} : \A m \in CSType :
             win_charsize(m, c, PtrOf(line, i), line[i], csarg).size
               = CharSize(0, 0)

Wit_C9 ==
  /\ pc = "scan" /\ idx = 2 /\ cstype = kCharsizeRegular /\ line[1] = 769
  /\ win.indent = 4 /\ AnnAt(1) > 0 /\ last = CharSize(0, 0)

====
